---- MODULE Spec2Model ----
(***************************************************************************)
(* A model of up_pyperplan/solver.py: SolverImpl, the bridge that lowers a *)
(* unified-planning problem to a pyperplan task and lifts the plan back.   *)
(*                                                                         *)
(* Spec          ground/solve invocations on one solver instance, with the *)
(*               type registry self.pyp_types                              *)
(* FlattenSpec   the work-list flattening of goals and preconditions       *)
(* InitSpec      _convert_initial_values                                   *)
(* EffectSpec    the effect loop of _convert_action                        *)
(* PlanSpec      the plan reconstruction of solve                          *)
(***************************************************************************)
EXTENDS Integers, Sequences, FiniteSets, TLC

VARIABLES
    pc,               \* position of the running invocation, "idle" between two
    method,           \* "ground" or "solve": the entry point that is running
    problem,          \* the problem passed to the running invocation
    pyp_types,        \* self.pyp_types: type name -> PyperplanType node
    has_object_type,  \* self._has_object_type
    created,          \* the PyperplanType objects constructed by this invocation
    ret,              \* the value returned by the last direct _convert_type call
    nrefs,            \* _convert_type calls made for signatures and objects
    invoked,          \* external collaborators called by this invocation
    outcome,          \* how the last invocation that ended, ended
    solution,         \* what _search returned: <<>> for None, <<seq>> for a sequence
    input,            \* the argument of the pure translation under study
    stack,            \* the work list of the flattening loops
    p_l,              \* the list (or the add/delete sets) built so far
    cursor            \* loop index of the pure translation under study

vars == <<pc, method, problem, pyp_types, has_object_type, created, ret,
          nrefs, invoked, outcome, solution, input, stack, p_l, cursor>>

solverVars == <<method, problem, pyp_types, has_object_type, created,
                ret, nrefs, invoked, outcome, solution>>

(***************************************************************************)
(* Bounds of the model.                                                    *)
(***************************************************************************)
MaxRefs == 1           \* type references after the user types are resolved
RecursionLimit == 4    \* frames of _convert_type before RecursionError

(***************************************************************************)
(* Problems: a capability profile and a type hierarchy.                    *)
(***************************************************************************)
TypeNames == {"object", "A", "B"}
NoFather == "None"

Unsupported == {"NEGATIVE_CONDITIONS", "DISJUNCTIVE_CONDITIONS", "EQUALITY",
                "CONTINUOUS_NUMBERS", "DISCRETE_NUMBERS", "CONDITIONAL_EFFECTS"}
Typing == {"FLAT_TYPING", "HIERARCHICAL_TYPING"}

\* type name -> name of the declared father, for the declared user types
Hierarchies ==
    UNION {[d -> d \cup {NoFather}] : d \in SUBSET TypeNames}

Kinds == {{"FLAT_TYPING"}, {"HIERARCHICAL_TYPING"}}
         \cup {{f} : f \in Unsupported}
         \cup {{"EQUALITY", "NEGATIVE_CONDITIONS"},
               {"CONDITIONAL_EFFECTS", "HIERARCHICAL_TYPING"}}

\* the hierarchies tried with a capability profile the solver does not support
Flat == {h \in Hierarchies : \A t \in DOMAIN h : h[t] = NoFather}

Problems == {p \in [kind : Kinds, types : Hierarchies] :
                 p.kind = {"HIERARCHICAL_TYPING"} \/ p.types \in Flat}

user_types(p) == DOMAIN p.types
has_type(p, name) == name \in DOMAIN p.types

\* supports(problem_kind): problem_kind <= {FLAT_TYPING, HIERARCHICAL_TYPING}
supports(kind) == kind \subseteq Typing

(***************************************************************************)
(* The type registry. A node is [id, name, father]; father is <<>> for     *)
(* None and <<n>> for the node n. The id stands for the object's identity. *)
(* The registry state threaded through the calls is                        *)
(* [reg, hasobj, created]. Identities are compared among live objects     *)
(* only, so a new object takes the least identity no live object has.      *)
(***************************************************************************)
NoNode == <<>>

Put(reg, name, node) ==
    [n \in DOMAIN reg \cup {name} |-> IF n = name THEN node ELSE reg[n]]

\* a node and the nodes its father links lead to
RECURSIVE Chain(_)
Chain(node) == IF node.father = NoNode THEN {node} ELSE {node} \cup Chain(node.father[1])

Live(st) == UNION {Chain(n) : n \in {st.reg[t] : t \in DOMAIN st.reg} \cup st.created}

FreshId(st) ==
    LET used == {n.id : n \in Live(st)}
    IN CHOOSE i \in 1..(Cardinality(used) + 1) :
           i \notin used /\ \A j \in 1..(i - 1) : j \in used

\* new_t = PyperplanType(name, father); self.pyp_types[name] = new_t
NewType(name, father, st) ==
    LET new_t == [id |-> FreshId(st), name |-> name, father |-> father]
    IN [status |-> "ok",
        node |-> <<new_t>>,
        st |-> [st EXCEPT !.reg = Put(st.reg, name, new_t),
                          !.created = st.created \cup {new_t}]]

RECURSIVE convert_type_nomemo(_, _, _, _)
convert_type_nomemo(p, type, st, depth) ==
    IF depth > RecursionLimit
    THEN [status |-> "RecursionError", node |-> NoNode, st |-> st]
    ELSE IF p.types[type] # NoFather
    THEN LET r == convert_type_nomemo(p, p.types[type], st, depth + 1)
         IN IF r.status # "ok" THEN r ELSE NewType(type, r.node, r.st)
    ELSE IF ~st.hasobj
    THEN NewType(type, <<st.reg["object"]>>, st)
    ELSE NewType(type, NoNode, st)

RECURSIVE convert_type(_, _, _, _)
convert_type(p, type, st, depth) ==
    IF depth > RecursionLimit
    THEN [status |-> "RecursionError", node |-> NoNode, st |-> st]
    ELSE IF type \in DOMAIN st.reg
    THEN [status |-> "ok", node |-> <<st.reg[type]>>, st |-> st]
    ELSE IF p.types[type] # NoFather
    THEN LET r == convert_type(p, p.types[type], st, depth + 1)
         IN IF r.status # "ok" THEN r ELSE NewType(type, r.node, r.st)
    ELSE IF ~st.hasobj
    THEN NewType(type, <<st.reg["object"]>>, st)
    ELSE NewType(type, NoNode, st)

\* {t.name(): self._convert_type(t) for t in problem.user_types()}, in list order
RECURSIVE convert_all(_, _, _)
convert_all(p, order, st) ==
    IF order = <<>>
    THEN [status |-> "ok", node |-> NoNode, st |-> st]
    ELSE LET r == convert_type(p, Head(order), st, 1)
         IN IF r.status # "ok" THEN r ELSE convert_all(p, Tail(order), r.st)

Orders(S) ==
    {o \in [1..Cardinality(S) -> S] : \A i, j \in 1..Cardinality(S) : o[i] = o[j] => i = j}

\* the first capability check of _convert_domain that fires, "" when none does
Rejection(kind) ==
    IF "NEGATIVE_CONDITIONS" \in kind THEN "negative conditions"
    ELSE IF "DISJUNCTIVE_CONDITIONS" \in kind THEN "disjunctive conditions"
    ELSE IF "EQUALITY" \in kind THEN "equality"
    ELSE IF "CONTINUOUS_NUMBERS" \in kind \/ "DISCRETE_NUMBERS" \in kind THEN "numbers"
    ELSE IF "CONDITIONAL_EFFECTS" \in kind THEN "conditional effects"
    ELSE ""

Regs == [reg |-> pyp_types, hasobj |-> has_object_type, created |-> created]

NoPlan == <<>>
Result(status, detail, plan) == [status |-> status, detail |-> detail, plan |-> plan]

pureVars == <<input, stack, p_l, cursor>>

(***************************************************************************)
(* Plan reconstruction. A string is a sequence of one-character strings.   *)
(***************************************************************************)
MaxPlanLen == 2        \* ground actions in a solution
MaxArity == 2          \* objects bound by one ground action

ActionNames == {<<"m", "v">>, <<"a">>}
ObjectNames == {<<"r", "1">>, <<"r", "2">>}

\* str.split(" ")
RECURSIVE split(_)
split(s) ==
    IF s = <<>> THEN << <<>> >>
    ELSE IF Head(s) = " " THEN << <<>> >> \o split(Tail(s))
    ELSE LET r == split(Tail(s)) IN << <<Head(s)>> \o Head(r) >> \o Tail(r)

\* the name pyperplan gives a ground operator: "(name o1 ... ok)"
RECURSIVE join(_)
join(tokens) ==
    IF tokens = <<>> THEN <<>> ELSE <<" ">> \o Head(tokens) \o join(Tail(tokens))

GroundName(name, objs) == <<"(">> \o name \o join(objs) \o <<")">>

SeqsUpTo(S, n) == UNION {[1..k -> S] : k \in 0..n}

GroundNames == {GroundName(a, o) : a \in ActionNames, o \in SeqsUpTo(ObjectNames, MaxArity)}

convert_string_swapped(string) ==
    IF ~(Len(string) >= 2 /\ string[1] = "(" /\ string[Len(string)] = ")")
    THEN [status |-> "AssertionError", action |-> <<>>, param |-> <<>>]
    ELSE LET list_str == split(SubSeq(string, 2, Len(string) - 1))
             rest == Tail(list_str)
         IN IF list_str[1] \notin ActionNames \/ \E i \in DOMAIN rest : rest[i] \notin ObjectNames
            THEN [status |-> "UPValueError", action |-> <<>>, param |-> <<>>]
            ELSE [status |-> "ok", action |-> list_str[1],
                  param |-> [i \in DOMAIN rest |-> rest[Len(rest) + 1 - i]]]

\* _convert_string_to_action_instance(string, problem)
convert_string_to_action_instance(string) ==
    IF ~(Len(string) >= 2 /\ string[1] = "(" /\ string[Len(string)] = ")")
    THEN [status |-> "AssertionError", action |-> <<>>, param |-> <<>>]
    ELSE LET list_str == split(SubSeq(string, 2, Len(string) - 1))
             rest == Tail(list_str)
         IN IF list_str[1] \notin ActionNames \/ \E i \in DOMAIN rest : rest[i] \notin ObjectNames
            THEN [status |-> "UPValueError", action |-> <<>>, param |-> <<>>]
            ELSE [status |-> "ok", action |-> list_str[1], param |-> rest]

NoSolution == <<>>

\* lines 72, 75-77 of solve: the plan built from a sequence of ground names
build_plan(seq) ==
    LET actions == [i \in DOMAIN seq |-> convert_string_to_action_instance(seq[i])]
    IN IF \E i \in DOMAIN actions : actions[i].status # "ok"
       THEN LET k == CHOOSE i \in DOMAIN actions :
                         /\ actions[i].status # "ok"
                         /\ \A j \in 1..(i - 1) : actions[j].status = "ok"
            IN Result(actions[k].status, "", NoPlan)
       ELSE Result("SOLVED_SATISFICING", "", <<actions>>)

solve_result_falsy(sol) ==
    IF sol = NoSolution \/ sol[1] = <<>>
    THEN Result("UNSOLVABLE_PROVEN", "", NoPlan)
    ELSE build_plan(sol[1])

\* lines 73-77 of solve: the result built from what _search returned
solve_result(sol) ==
    IF sol = NoSolution
    THEN Result("UNSOLVABLE_PROVEN", "", NoPlan)
    ELSE build_plan(sol[1])

(***************************************************************************)
(* The invocations of ground and solve on one solver instance.             *)
(***************************************************************************)
\* what the Search Engine may return to an invocation of this specification
SearchResults ==
    {NoSolution,
     << <<>> >>,
     << <<GroundName(<<"a">>, <<>>)>> >>,
     << <<GroundName(<<"m", "v">>, << <<"r", "1">>, <<"r", "2">> >>),
          GroundName(<<"a">>, <<>>)>> >>}

NoRet == [name |-> "", node |-> NoNode]

Enter(m, p) ==
    /\ method' = m
    /\ problem' = p
    /\ created' = {}
    /\ invoked' = {}
    /\ ret' = NoRet
    /\ nrefs' = 0
    /\ solution' = NoSolution

Leave(result) ==
    /\ outcome' = result
    /\ pc' = "idle"

ClearNot(m, p) ==
    /\ pc = "idle"
    /\ Enter(m, p)
    /\ pc' = "domain"
    /\ UNCHANGED <<pyp_types, has_object_type, outcome>>

\* self.pyp_types = {} and the call of _convert_domain
Clear(m, p) ==
    /\ pc = "idle"
    /\ Enter(m, p)
    /\ pyp_types' = <<>>
    /\ pc' = "domain"
    /\ UNCHANGED <<has_object_type, outcome>>

\* ground, line 44
CallGround ==
    /\ \E p \in Problems : Clear("ground", p)
    /\ UNCHANGED pureVars

\* solve, lines 58-63
CallSolve ==
    /\ \E p \in Problems :
          IF supports(p.kind)
          THEN Clear("solve", p)
          ELSE /\ pc = "idle"
                          /\ Enter("solve", p)
               /\ Leave(Result("AssertionError", "supports", NoPlan))
               /\ UNCHANGED <<pyp_types, has_object_type>>
    /\ UNCHANGED pureVars

\* _convert_domain, lines 123-136
ConvertDomainChecks ==
    /\ pc = "domain"
    /\ IF Rejection(problem.kind) # ""
       THEN /\ Leave(Result("UPUnsupportedProblemTypeError", Rejection(problem.kind), NoPlan))
            /\ UNCHANGED <<pyp_types, has_object_type, created>>
       ELSE LET hasobj == has_type(problem, "object")
                st == [Regs EXCEPT !.hasobj = hasobj]
                r == IF hasobj THEN st ELSE NewType("object", NoNode, st).st
            IN /\ has_object_type' = hasobj
               /\ pyp_types' = r.reg
               /\ created' = r.created
               /\ pc' = "types"
               /\ UNCHANGED outcome
    /\ UNCHANGED <<method, problem, ret, nrefs, invoked, solution, pureVars>>

\* _convert_domain, line 137
ConvertUserTypes ==
    /\ pc = "types"
    /\ \E order \in Orders(user_types(problem)) :
          LET r == convert_all(problem, order, Regs)
          IN IF r.status # "ok"
             THEN /\ Leave(Result(r.status, "", NoPlan))
                  /\ UNCHANGED <<pyp_types, created>>
             ELSE /\ pyp_types' = r.st.reg
                  /\ created' = r.st.created
                  /\ pc' = "refs"
                  /\ UNCHANGED outcome
    /\ UNCHANGED <<method, problem, has_object_type, ret, nrefs, invoked,
                   solution, pureVars>>

\* a _convert_type call of lines 144, 153, 163-165, 181-184, 88, 102, 118
ConvertTypeRef ==
    /\ pc = "refs"
    /\ nrefs < MaxRefs
    /\ \E t \in user_types(problem) :
          LET r == convert_type(problem, t, Regs, 1)
          IN IF r.status # "ok"
             THEN /\ Leave(Result(r.status, "", NoPlan))
                  /\ UNCHANGED <<pyp_types, created, ret>>
             ELSE /\ pyp_types' = r.st.reg
                  /\ created' = r.st.created
                  /\ ret' = [name |-> t, node |-> r.node]
                  /\ UNCHANGED <<pc, outcome>>
    /\ nrefs' = nrefs + 1
    /\ UNCHANGED <<method, problem, has_object_type, invoked, solution, pureVars>>

\* task = _ground(prob), lines 47-49 and 67
CallGrounder ==
    /\ pc = "refs"
    /\ invoked' = invoked \cup {"Grounder"}
    /\ IF method = "ground"
       THEN Leave(Result("grounded", "", NoPlan))
       ELSE /\ pc' = "search"
            /\ UNCHANGED outcome
    /\ UNCHANGED <<method, problem, pyp_types, has_object_type, created, ret,
                   nrefs, solution, pureVars>>

\* solution = _search(task, search, heuristic) and lines 72-77
CallSearch ==
    /\ pc = "search"
    /\ \E sol \in SearchResults :
          /\ solution' = sol
          /\ Leave(solve_result(sol))
    /\ invoked' = invoked \cup {"Search"}
    /\ UNCHANGED <<method, problem, pyp_types, has_object_type, created, ret,
                   nrefs, pureVars>>

Init ==
    /\ pc = "idle"
    /\ method = ""
    /\ problem = [kind |-> {}, types |-> <<>>]
    /\ pyp_types = <<>>
    /\ has_object_type = FALSE
    /\ created = {}
    /\ ret = NoRet
    /\ nrefs = 0
    /\ invoked = {}
    /\ outcome = Result("none", "", NoPlan)
    /\ solution = NoSolution
    /\ input = <<>>
    /\ stack = <<>>
    /\ p_l = <<>>
    /\ cursor = 0

Next ==
    \/ CallGround
    \/ CallSolve
    \/ ConvertDomainChecks
    \/ ConvertUserTypes
    \/ ConvertTypeRef
    \/ CallGrounder
    \/ CallSearch

Spec == Init /\ [][Next]_vars

(***************************************************************************)
(* The pure translations run against the registry of one fixed problem:    *)
(* types A and B without father, objects r1 : A and r2 : B, parameter      *)
(* x : A.                                                                  *)
(***************************************************************************)
FixedProblem == [kind |-> {"FLAT_TYPING"}, types |-> [t \in {"A", "B"} |-> NoFather]]

FixedRegs ==
    convert_all(FixedProblem, <<"A", "B">>,
                NewType("object", NoNode, [reg |-> <<>>, hasobj |-> FALSE, created |-> {}]).st).st

TypeOf(name) == IF name = "r2" THEN "B" ELSE "A"

\* self._convert_type(o.object().type()) and self._convert_type(p.parameter().type())
type_node(name) == convert_type(problem, TypeOf(name), Regs, 1).node[1]

Predicate(name, signature) == [name |-> name, signature |-> signature]

TranslationInit ==
    /\ method = ""
    /\ problem = FixedProblem
    /\ pyp_types = FixedRegs.reg
    /\ has_object_type = FALSE
    /\ created = FixedRegs.created
    /\ ret = NoRet
    /\ nrefs = 0
    /\ invoked = {}
    /\ outcome = Result("none", "", NoPlan)
    /\ solution = NoSolution

(***************************************************************************)
(* Expressions. A node is [op, name, args]: a fluent application           *)
(* ("fluent", over argument expressions), a conjunction ("and"), another   *)
(* operator ("or", "not"), or an argument expression ("object",            *)
(* "parameter", or "fluent" again for an object-valued fluent).            *)
(***************************************************************************)
MaxWidth == 2          \* conjuncts of an inner conjunction
MaxGoals == 2          \* expressions in problem.goals() / action.preconditions()

Node(op, name, args) == [op |-> op, name |-> name, args |-> args]
ObjectExp(o) == Node("object", o, <<>>)
ParameterExp(x) == Node("parameter", x, <<>>)
FluentExp(f, args) == Node("fluent", f, args)
And(args) == Node("and", "", args)
Or(args) == Node("or", "", args)
Not(args) == Node("not", "", args)

GroundLeaves == {FluentExp("p", <<ObjectExp("r1")>>),
                 FluentExp("q", <<ObjectExp("r1"), ObjectExp("r2")>>)}
LiftedLeaves == {FluentExp("p", <<ParameterExp("x")>>)}
NestedLeaves == {FluentExp("q", <<ObjectExp("r1"), FluentExp("f", <<>>)>>)}
OtherOps == {Or(<<FluentExp("p", <<ObjectExp("r1")>>), FluentExp("p", <<ObjectExp("r2")>>)>>),
             Not(<<FluentExp("p", <<ObjectExp("r1")>>)>>)}

Atoms == GroundLeaves \cup LiftedLeaves \cup NestedLeaves \cup OtherOps
Level1 == Atoms \cup {And(a) : a \in SeqsUpTo(Atoms, MaxWidth)}
Level2 == Level1 \cup {And(<<t>>) : t \in Level1}
                 \cup {And(<<t, a>>) : t \in Level1, a \in Atoms}
                 \cup {And(<<a, t>>) : t \in Level1, a \in Atoms}

ExprLists == {<<t>> : t \in Level2} \cup SeqsUpTo(Atoms, MaxGoals)

\* the argument loops of lines 101-102 (goal), 161-167 (precondition) and
\* 178-186 (effect):
\* o.object() asserts is_object_exp() on the goal path
RECURSIVE convert_args(_, _)
convert_args(ctx, args) ==
    IF args = <<>> THEN [status |-> "ok", sig |-> <<>>]
    ELSE LET a == Head(args)
             supported == IF ctx = "goal" THEN a.op = "object"
                          ELSE a.op \in {"object", "parameter"}   \* precondition, effect
         IN IF ~supported
            THEN [status |-> IF ctx = "goal" THEN "AssertionError" ELSE "NotImplementedError",
                  sig |-> <<>>]
            ELSE LET r == convert_args(ctx, Tail(args))
                 IN IF r.status # "ok" THEN r
                    ELSE [status |-> "ok",
                          sig |-> << <<a.name, <<type_node(a.name)>> >> >> \o r.sig]

Pop(s) == SubSeq(s, 1, Len(s) - 1)
Top(s) == s[Len(s)]

\* for f in problem.goals(): stack = [f]   /   for p in action.preconditions()
FlattenFor ==
    /\ pc = "for"
    /\ cursor <= Len(input.exprs)
    /\ stack' = <<input.exprs[cursor]>>
    /\ cursor' = cursor + 1
    /\ pc' = "while"
    /\ UNCHANGED <<solverVars, input, p_l>>

\* while stack: ... the loop ends
FlattenWhileEnd ==
    /\ pc = "while"
    /\ stack = <<>>
    /\ pc' = "for"
    /\ UNCHANGED <<solverVars, input, stack, p_l, cursor>>

\* x = stack.pop(); if x.is_fluent_exp(): ...
FlattenFluent ==
    /\ pc = "while"
    /\ stack # <<>>
    /\ Top(stack).op = "fluent"
    /\ LET x == Top(stack)
           r == convert_args(input.ctx, x.args)
       IN /\ stack' = Pop(stack)
          /\ IF r.status # "ok"
             THEN /\ Leave(Result(r.status, "", NoPlan))
                  /\ UNCHANGED p_l
             ELSE /\ p_l' = Append(p_l, Predicate(x.name, r.sig))
                  /\ UNCHANGED <<pc, outcome>>
    /\ UNCHANGED <<method, problem, pyp_types, has_object_type, created, ret, nrefs,
                   invoked, solution, input, cursor>>

FlattenAndFirst ==
    /\ pc = "while"
    /\ stack # <<>>
    /\ Top(stack).op = "and"
    /\ stack' = Pop(stack) \o (IF Top(stack).args = <<>> THEN <<>> ELSE <<Top(stack).args[1]>>)
    /\ UNCHANGED <<pc, solverVars, input, p_l, cursor>>

\* x = stack.pop(); elif x.is_and(): stack.extend(x.args())
FlattenAnd ==
    /\ pc = "while"
    /\ stack # <<>>
    /\ Top(stack).op = "and"
    /\ stack' = Pop(stack) \o Top(stack).args
    /\ UNCHANGED <<pc, solverVars, input, p_l, cursor>>

\* x = stack.pop(); else: raise UPUnsupportedProblemTypeError
FlattenOther ==
    /\ pc = "while"
    /\ stack # <<>>
    /\ Top(stack).op \notin {"fluent", "and"}
    /\ stack' = Pop(stack)
    /\ Leave(Result("UPUnsupportedProblemTypeError", Top(stack).op, NoPlan))
    /\ UNCHANGED <<method, problem, pyp_types, has_object_type, created, ret, nrefs,
                   invoked, solution, input, p_l, cursor>>

\* return p_l (the precondition list goes on to line 173)
FlattenReturn ==
    /\ pc = "for"
    /\ cursor > Len(input.exprs)
    /\ Leave(Result("ok", "", NoPlan))
    /\ UNCHANGED <<method, problem, pyp_types, has_object_type, created, ret, nrefs,
                   invoked, solution, input, stack, p_l, cursor>>

FlattenInit ==
    /\ TranslationInit
    /\ pc = "for"
    /\ input \in [ctx : {"goal", "precondition"}, exprs : ExprLists]
    /\ stack = <<>>
    /\ p_l = <<>>
    /\ cursor = 1

FlattenNext ==
    \/ FlattenFor
    \/ FlattenWhileEnd
    \/ FlattenFluent
    \/ FlattenAnd
    \/ FlattenOther
    \/ FlattenReturn

\* the interpreter runs the loops to their end: no step is postponed for ever
FlattenSpec == FlattenInit /\ [][FlattenNext]_vars /\ WF_vars(FlattenNext)

(***************************************************************************)
(* _convert_initial_values. problem.initial_values() is a dict: a list of  *)
(* (fluent application, value) items with distinct keys.                   *)
(***************************************************************************)
MaxInit == 2           \* items of problem.initial_values()

Instances == {FluentExp("p", <<ObjectExp("r1")>>),
              FluentExp("p", <<ObjectExp("r2")>>),
              FluentExp("q", <<ObjectExp("r1"), ObjectExp("r2")>>),
              FluentExp("q", <<ObjectExp("r2"), ObjectExp("r1")>>),
              FluentExp("s", <<>>)}

Values == {"True", "False", "5"}
is_bool_constant(v) == v \in {"True", "False"}
bool_constant_value(v) == v = "True"

InitialValues ==
    {iv \in SeqsUpTo([f : Instances, v : Values], MaxInit) :
        \A i, j \in DOMAIN iv : iv[i].f = iv[j].f => i = j}

\* lines 116-119: the fact of a fluent application over objects
Fact(f) ==
    Predicate(f.name, [i \in DOMAIN f.args |-> <<f.args[i].name, type_node(f.args[i].name)>>])

\* if not v.is_bool_constant(): raise UPUnsupportedProblemTypeError
InitNotBool ==
    /\ pc = "items"
    /\ cursor <= Len(input)
    /\ ~is_bool_constant(input[cursor].v)
    /\ Leave(Result("UPUnsupportedProblemTypeError", "initial value", NoPlan))
    /\ UNCHANGED <<method, problem, pyp_types, has_object_type, created, ret, nrefs,
                   invoked, solution, pureVars>>

\* if v.bool_constant_value(): p_l.append(Predicate(...))
InitTrue ==
    /\ pc = "items"
    /\ cursor <= Len(input)
    /\ is_bool_constant(input[cursor].v)
    /\ bool_constant_value(input[cursor].v)
    /\ p_l' = Append(p_l, Fact(input[cursor].f))
    /\ cursor' = cursor + 1
    /\ UNCHANGED <<pc, solverVars, input, stack>>

InitFalseKept ==
    /\ pc = "items"
    /\ cursor <= Len(input)
    /\ is_bool_constant(input[cursor].v)
    /\ ~bool_constant_value(input[cursor].v)
    /\ p_l' = Append(p_l, Fact(input[cursor].f))
    /\ cursor' = cursor + 1
    /\ UNCHANGED <<pc, solverVars, input, stack>>

\* a False value: the item is skipped
InitFalse ==
    /\ pc = "items"
    /\ cursor <= Len(input)
    /\ is_bool_constant(input[cursor].v)
    /\ ~bool_constant_value(input[cursor].v)
    /\ cursor' = cursor + 1
    /\ UNCHANGED <<pc, solverVars, input, stack, p_l>>

\* return p_l
InitReturn ==
    /\ pc = "items"
    /\ cursor > Len(input)
    /\ Leave(Result("ok", "", NoPlan))
    /\ UNCHANGED <<method, problem, pyp_types, has_object_type, created, ret, nrefs,
                   invoked, solution, pureVars>>

InitInit ==
    /\ TranslationInit
    /\ pc = "items"
    /\ input \in InitialValues
    /\ stack = <<>>
    /\ p_l = <<>>
    /\ cursor = 1

InitNext ==
    \/ InitNotBool
    \/ InitTrue
    \/ InitFalse
    \/ InitReturn

InitSpec == InitInit /\ [][InitNext]_vars

(***************************************************************************)
(* The effect loop of _convert_action. add_set and del_set hold Predicate  *)
(* objects; the object built for the i-th effect has identity i.           *)
(***************************************************************************)
MaxEffects == 2        \* effects of one action

EffectFluents == {FluentExp("p", <<ParameterExp("x")>>),
                  FluentExp("p", <<ObjectExp("r1")>>),
                  FluentExp("q", <<ObjectExp("r1"), ParameterExp("x")>>),
                  FluentExp("q", <<ObjectExp("r1"), FluentExp("f", <<>>)>>)}

Effects == SeqsUpTo([fluent : EffectFluents, value : {"True", "False"}], MaxEffects)

\* lines 177-186
effect_params(e) == convert_args("effect", e.fluent.args)

PredicateObject(i, e) ==
    [id |-> i, pred |-> Predicate(e.fluent.name, effect_params(e).sig)]

\* the argument is neither a parameter nor an object: raise NotImplementedError
EffectBadArgument ==
    /\ pc = "effects"
    /\ cursor <= Len(input)
    /\ effect_params(input[cursor]).status # "ok"
    /\ Leave(Result(effect_params(input[cursor]).status, "", NoPlan))
    /\ UNCHANGED <<method, problem, pyp_types, has_object_type, created, ret, nrefs,
                   invoked, solution, pureVars>>

\* if e.value().bool_constant_value(): add_set.add(Predicate(...))
EffectAdd ==
    /\ pc = "effects"
    /\ cursor <= Len(input)
    /\ effect_params(input[cursor]).status = "ok"
    /\ bool_constant_value(input[cursor].value)
    /\ p_l' = [p_l EXCEPT !.add_set = @ \cup {PredicateObject(cursor, input[cursor])}]
    /\ cursor' = cursor + 1
    /\ UNCHANGED <<pc, solverVars, input, stack>>

EffectDelIntoAdd ==
    /\ pc = "effects"
    /\ cursor <= Len(input)
    /\ effect_params(input[cursor]).status = "ok"
    /\ ~bool_constant_value(input[cursor].value)
    /\ p_l' = [p_l EXCEPT !.add_set = @ \cup {PredicateObject(cursor, input[cursor])}]
    /\ cursor' = cursor + 1
    /\ UNCHANGED <<pc, solverVars, input, stack>>

\* else: del_set.add(Predicate(...))
EffectDel ==
    /\ pc = "effects"
    /\ cursor <= Len(input)
    /\ effect_params(input[cursor]).status = "ok"
    /\ ~bool_constant_value(input[cursor].value)
    /\ p_l' = [p_l EXCEPT !.del_set = @ \cup {PredicateObject(cursor, input[cursor])}]
    /\ cursor' = cursor + 1
    /\ UNCHANGED <<pc, solverVars, input, stack>>

\* effect.addlist = add_set; effect.dellist = del_set; return PyperplanAction(...)
EffectReturn ==
    /\ pc = "effects"
    /\ cursor > Len(input)
    /\ Leave(Result("ok", "", NoPlan))
    /\ UNCHANGED <<method, problem, pyp_types, has_object_type, created, ret, nrefs,
                   invoked, solution, pureVars>>

EffectInit ==
    /\ TranslationInit
    /\ pc = "effects"
    /\ input \in Effects
    /\ stack = <<>>
    /\ p_l = [add_set |-> {}, del_set |-> {}]
    /\ cursor = 1

EffectNext ==
    \/ EffectBadArgument
    \/ EffectAdd
    \/ EffectDel
    \/ EffectReturn

EffectSpec == EffectInit /\ [][EffectNext]_vars

(***************************************************************************)
(* The plan reconstruction of solve: input is the list of ground actions   *)
(* the search found, solution the names it returns for them.               *)
(***************************************************************************)
GroundActions == [name : ActionNames, objs : SeqsUpTo(ObjectNames, MaxArity)]

\* lines 72-77 of solve
Reconstruct ==
    /\ pc = "search"
    /\ Leave(solve_result(solution))
    /\ invoked' = invoked \cup {"Search"}
    /\ UNCHANGED <<method, problem, pyp_types, has_object_type, created, ret, nrefs,
                   solution, pureVars>>

PlanInit ==
    /\ method = "solve"
    /\ problem = FixedProblem
    /\ pyp_types = FixedRegs.reg
    /\ has_object_type = FALSE
    /\ created = FixedRegs.created
    /\ ret = NoRet
    /\ nrefs = 0
    /\ invoked = {"Grounder"}
    /\ outcome = Result("none", "", NoPlan)
    /\ pc = "search"
    /\ input \in SeqsUpTo(GroundActions, MaxPlanLen)
    /\ solution = <<[i \in DOMAIN input |-> GroundName(input[i].name, input[i].objs)]>>
    /\ stack = <<>>
    /\ p_l = <<>>
    /\ cursor = 0

PlanNext == Reconstruct

PlanSpec == PlanInit /\ [][PlanNext]_vars

(***************************************************************************)
(* Properties of the flattening.                                           *)
(***************************************************************************)
\* the nodes the conjunctions of a tree lead to
RECURSIVE ExprNodes(_)
ExprNodes(t) ==
    IF t.op = "and"
    THEN {t} \cup UNION {ExprNodes(t.args[i]) : i \in DOMAIN t.args}
    ELSE {t}

RECURSIVE Concat(_)
Concat(ss) == IF ss = <<>> THEN <<>> ELSE Head(ss) \o Concat(Tail(ss))

\* the predicate applications at the leaves of a tree, left to right
RECURSIVE LeavesOf(_)
LeavesOf(t) ==
    IF t.op = "and" THEN Concat([i \in DOMAIN t.args |-> LeavesOf(t.args[i])])
    ELSE IF t.op = "fluent" THEN <<t>>
    ELSE <<>>

AllNodes == UNION {ExprNodes(input.exprs[i]) : i \in DOMAIN input.exprs}
AllLeaves == Concat([i \in DOMAIN input.exprs |-> LeavesOf(input.exprs[i])])

Conjunctive == \A n \in AllNodes : n.op \in {"and", "fluent"}

SupportedArg(a) ==
    IF input.ctx = "goal" THEN a.op = "object" ELSE a.op \in {"object", "parameter"}

SupportedLeaves ==
    \A n \in AllNodes : n.op = "fluent" => \A i \in DOMAIN n.args : SupportedArg(n.args[i])

ExpectedPredicate(leaf) ==
    Predicate(leaf.name,
              [i \in DOMAIN leaf.args |->
                  <<leaf.args[i].name, <<pyp_types[TypeOf(leaf.args[i].name)]>> >>])

Count(x, seq) == Cardinality({i \in DOMAIN seq : seq[i] = x})
Range(seq) == {seq[i] : i \in DOMAIN seq}
SameBag(a, b) ==
    /\ Len(a) = Len(b)
    /\ \A x \in Range(a) \cup Range(b) : Count(x, a) = Count(x, b)

ReturnsLeaves ==
    /\ outcome.status = "ok"
    /\ SameBag(p_l, [i \in DOMAIN AllLeaves |-> ExpectedPredicate(AllLeaves[i])])

Flattened == pc = "idle"

\* C7, as stated: a tree of conjunctions over predicate applications flattens to
\* exactly its leaves, and a tree with any other operator is rejected as an
\* unsupported expression.
C7_AsStated ==
    Flattened =>
        /\ Conjunctive => ReturnsLeaves
        /\ ~Conjunctive => outcome.status = "UPUnsupportedProblemTypeError"

C7_Returned ==
    (Flattened /\ SupportedLeaves) =>
        /\ Conjunctive => ReturnsLeaves
        /\ ~Conjunctive => outcome.status = "UPUnsupportedProblemTypeError"

\* C7, amended: when every predicate application has only supported arguments
\* (concrete objects; in a precondition also bound parameters), the flattening
\* terminates, returns exactly the leaves of a tree of conjunctions, each once,
\* and rejects a tree with any other operator as an unsupported expression.
C7_Flattening == []C7_Returned /\ <>Flattened

C7_Witness ==
    /\ Flattened
    /\ outcome.status = "ok"
    /\ Len(input.exprs) = 1
    /\ input.exprs[1].op = "and"
    /\ Len(input.exprs[1].args) = 2
    /\ input.exprs[1].args[1].op = "and"
    /\ Len(p_l) = 3
    /\ p_l[1] # p_l[2]

\* C9: a goal literal with an argument that is not a concrete object ends the
\* goal translation with the unsupported-problem rejection.
C9_GoalArgumentRejected ==
    (/\ Flattened
     /\ input.ctx = "goal"
     /\ \E n \in AllNodes : n.op = "fluent" /\ \E i \in DOMAIN n.args : n.args[i].op # "object")
    => outcome.status = "UPUnsupportedProblemTypeError"

(***************************************************************************)
(* Properties of the initial values, the effects and the plan.             *)
(***************************************************************************)
ExpectedFact(f) ==
    Predicate(f.name,
              [i \in DOMAIN f.args |-> <<f.args[i].name, pyp_types[TypeOf(f.args[i].name)]>>])

AssignedTrue(f) == \E i \in DOMAIN input : input[i].f = f /\ input[i].v = "True"

\* C5: when every initial value is a boolean constant, the initial-fact list
\* holds exactly one fact for each fluent instance assigned true and none for an
\* instance assigned false or not assigned.
C5_ClosedWorld ==
    (pc = "idle" /\ \A i \in DOMAIN input : is_bool_constant(input[i].v)) =>
        /\ outcome.status = "ok"
        /\ \A f \in Instances :
              Count(ExpectedFact(f), p_l) = IF AssignedTrue(f) THEN 1 ELSE 0
        /\ Len(p_l) = Cardinality({f \in Instances : AssignedTrue(f)})

C5_Witness ==
    /\ pc = "idle"
    /\ outcome.status = "ok"
    /\ Len(input) = 2
    /\ input[1].v = "False"
    /\ input[2].v = "True"
    /\ input[2].f.name = "q"
    /\ Len(p_l) = 1

ExpectedObject(i) ==
    [id |-> i,
     pred |-> Predicate(input[i].fluent.name,
                        [k \in DOMAIN input[i].fluent.args |->
                            <<input[i].fluent.args[k].name,
                              <<pyp_types[TypeOf(input[i].fluent.args[k].name)]>> >>])]

\* C6: in a translated action the predicate built for each effect is in the
\* add-set and not in the delete-set when the effect's value is true, in the
\* delete-set and not in the add-set otherwise, and the sets hold nothing else.
C6_Partition ==
    (pc = "idle" /\ outcome.status = "ok") =>
        /\ \A i \in DOMAIN input :
              IF input[i].value = "True"
              THEN ExpectedObject(i) \in p_l.add_set /\ ExpectedObject(i) \notin p_l.del_set
              ELSE ExpectedObject(i) \in p_l.del_set /\ ExpectedObject(i) \notin p_l.add_set
        /\ p_l.add_set \cup p_l.del_set = {ExpectedObject(i) : i \in DOMAIN input}

C6_Witness ==
    /\ pc = "idle"
    /\ outcome.status = "ok"
    /\ Len(input) = 2
    /\ input[1].fluent = input[2].fluent
    /\ input[1].value = "True"
    /\ input[2].value = "False"
    /\ Cardinality(p_l.add_set) = 1
    /\ Cardinality(p_l.del_set) = 1

\* C8: the plan has the length and the order of the sequence the search
\* returned, and its i-th instance has the action named by the first token of
\* the i-th name and, as arguments, the objects named by the other tokens in
\* token order.
C8_PlanFromNames ==
    (pc = "idle" /\ solution # NoSolution) =>
        /\ outcome.status = "SOLVED_SATISFICING"
        /\ outcome.plan # NoPlan
        /\ Len(outcome.plan[1]) = Len(solution[1])
        /\ \A i \in DOMAIN input :
              /\ outcome.plan[1][i].action = input[i].name
              /\ outcome.plan[1][i].param = input[i].objs

C8_Witness ==
    /\ pc = "idle"
    /\ outcome.status = "SOLVED_SATISFICING"
    /\ Len(input) = 2
    /\ input[1].objs = << <<"r", "1">>, <<"r", "2">> >>
    /\ input[2].objs = <<>>
    /\ outcome.plan[1][1].param = << <<"r", "1">>, <<"r", "2">> >>
    /\ outcome.plan[1][2].param = <<>>

(***************************************************************************)
(* Properties of the invocations.                                          *)
(***************************************************************************)
Searched == pc = "idle" /\ "Search" \in invoked

\* C1: when solve reaches the Search Engine, the no-solution signal gives the
\* unsolvable result with no plan, and a sequence of ground names, the empty one
\* included, gives the solved result with a plan of the same length.
C1_SearchOutcome ==
    Searched =>
        /\ solution = NoSolution =>
              outcome.status = "UNSOLVABLE_PROVEN" /\ outcome.plan = NoPlan
        /\ solution # NoSolution =>
              /\ outcome.status = "SOLVED_SATISFICING"
              /\ outcome.plan # NoPlan
              /\ Len(outcome.plan[1]) = Len(solution[1])

C1_Witness ==
    /\ Searched
    /\ solution = << <<>> >>
    /\ outcome.status = "SOLVED_SATISFICING"
    /\ outcome.plan = << <<>> >>

\* C2: every ground and every solve invocation on a problem with an unsupported
\* feature ends in the unsupported-problem rejection for that feature, with no
\* type node created and neither the Grounder nor the Search Engine invoked.
C2_RejectedFirst ==
    (pc = "idle" /\ method # "" /\ Rejection(problem.kind) # "") =>
        /\ outcome.status = "UPUnsupportedProblemTypeError"
        /\ outcome.detail = Rejection(problem.kind)
        /\ created = {}
        /\ invoked = {}

\* within one invocation no two nodes are created for one type name, and every
\* registered node is stored under its own name
C3_OneNodePerName ==
    /\ \A n1, n2 \in created : n1.name = n2.name => n1 = n2
    /\ pc # "idle" => \A t \in DOMAIN pyp_types : pyp_types[t].name = t

\* a direct resolution of a registered name returns the stored node and leaves
\* the registry and the created nodes alone
C3_ResolveStep ==
    (pc = "refs" /\ pc' = "refs" /\ nrefs' = nrefs + 1 /\ ret'.name \in DOMAIN pyp_types) =>
        /\ ret'.node = <<pyp_types[ret'.name]>>
        /\ pyp_types' = pyp_types
        /\ created' = created

\* C3: at most one node per type name within an invocation, and resolving a
\* registered name returns the stored node without creating a node and without
\* changing the registry.
C3_Memoized == []C3_OneNodePerName /\ [][C3_ResolveStep]_vars

C3_Witness ==
    /\ pc = "refs"
    /\ nrefs = 1
    /\ ret.name = "A"
    /\ "A" \in DOMAIN pyp_types
    /\ ret.node = <<pyp_types["A"]>>
    /\ pyp_types["A"].father # NoNode
    /\ pyp_types["A"].father[1].name = "B"
    /\ Cardinality(created) = 3

\* the parent the current problem determines for its type t
ExpectedFather(t) ==
    IF t \notin DOMAIN problem.types THEN NoNode
    ELSE IF problem.types[t] # NoFather THEN <<pyp_types[problem.types[t]]>>
    ELSE IF "object" \notin DOMAIN problem.types THEN <<pyp_types["object"]>>
    ELSE NoNode

Translating == pc \in {"types", "refs", "search"}

\* C4: the registry is empty when translation starts, and every node it holds
\* during an invocation was created by that invocation, with the parent the
\* current problem determines, itself a node of that invocation.
C4_FreshRegistry ==
    /\ pc = "domain" => pyp_types = <<>>
    /\ Translating =>
          \A t \in DOMAIN pyp_types :
              /\ Chain(pyp_types[t]) \subseteq created
              /\ pyp_types[t].father = ExpectedFather(t)

C4_Witness ==
    /\ pc = "refs"
    /\ outcome.status = "grounded"
    /\ DOMAIN problem.types = {"A", "B"}
    /\ problem.types["A"] = NoFather
    /\ problem.types["B"] = "A"
    /\ pyp_types["A"].father = <<pyp_types["object"]>>
    /\ pyp_types["B"].father = <<pyp_types["A"]>>

RECURSIVE Climbs(_, _, _)
Climbs(h, t, n) ==
    IF h[t] = NoFather THEN FALSE
    ELSE IF n = 0 THEN TRUE
    ELSE Climbs(h, h[t], n - 1)

\* some declared type is its own ancestor
Cyclic(h) == \E t \in DOMAIN h : Climbs(h, t, Cardinality(DOMAIN h))

\* C10: on a cyclic parent chain type resolution ends with the
\* unsupported-problem rejection.
C10_CycleRejected ==
    (pc = "idle" /\ method # "" /\ supports(problem.kind) /\ Cyclic(problem.types)) =>
        outcome.status = "UPUnsupportedProblemTypeError"

====
